---- MODULE Spec2Model ----
(***************************************************************************)
(* End-to-end test harness of the Astarte device SDK for Zephyr            *)
(* (e2e/pytest): the value codec and comparator of http_requests.py and    *)
(* test_utilities.py, the interface data variants, and the scenario run    *)
(* of test_e2e.py.                                                         *)
(*                                                                         *)
(* Python values are records [t |-> tag, v |-> payload].  A str is a       *)
(* sequence of characters, a bytes object a sequence of byte codes, a      *)
(* double is held in hundredths, a datetime is its instant in seconds.     *)
(* A raised exception is the record [t |-> "raise", v |-> exception name]. *)
(***************************************************************************)
EXTENDS Integers, Sequences, FiniteSets, TLC

\* Longest list in the universe of values handed to the pure functions.
MaxLen == 2

\* Longest fixture list, besides the one of data.py, a run is started with.
MaxFixtures == 2

(***************************************************************************)
(* Python values                                                           *)
(***************************************************************************)
PyNone == [t |-> "none", v |-> 0]
PyBool(b) == [t |-> "bool", v |-> b]
PyInt(n) == [t |-> "int", v |-> n]
PyFloat(h) == [t |-> "double", v |-> h]
PyStr(s) == [t |-> "str", v |-> s]
PyBytes(b) == [t |-> "bytes", v |-> b]
PyDatetime(s) == [t |-> "datetime", v |-> s]
PyList(s) == [t |-> "list", v |-> s]
Raise(x) == [t |-> "raise", v |-> x]

IsRaise(x) == x.t = "raise"

Min(a, b) == IF a <= b THEN a ELSE b

\* bool, int and float compare by numeric value (True == 1, 1 == 1.0).
IsNum(x) == x.t \in {"bool", "int", "double"}

NumVal(x) ==
    IF x.t = "bool" THEN (IF x.v THEN 100 ELSE 0)
    ELSE IF x.t = "int" THEN x.v * 100
    ELSE x.v

RECURSIVE PyEq(_, _)
\* The == of Python on the values of the harness.
PyEq(a, b) ==
    IF IsNum(a) /\ IsNum(b) THEN NumVal(a) = NumVal(b)
    ELSE IF a.t # b.t THEN FALSE
    ELSE IF a.t = "list"
        THEN /\ Len(a.v) = Len(b.v)
             /\ \A i \in 1..Len(a.v) : PyEq(a.v[i], b.v[i])
    ELSE a.v = b.v

(***************************************************************************)
(* test_utilities.compare_data                                             *)
(***************************************************************************)
RECURSIVE compare_data(_, _)

\* A comparator that walks the received list and indexes the expected one.
compare_data_by_received(received, expected) ==
    IF received.t = "list" /\ expected.t = "list"
    THEN \A i \in 1..Len(received.v) :
            /\ i <= Len(expected.v)
            /\ compare_data(received.v[i], expected.v[i])
    ELSE PyEq(received, expected)

\* zip() stops at the shorter of the two lists.
compare_data(received, expected) ==
    IF received.t = "list" /\ expected.t = "list"
    THEN \A i \in 1..Min(Len(received.v), Len(expected.v)) :
            compare_data(received.v[i], expected.v[i])
    ELSE PyEq(received, expected)

(***************************************************************************)
(* Field names.  A field name is the sequence of its lexemes:              *)
(* "longintegerarray_endpoint" is <<"longinteger", "array", "_endpoint">>. *)
(***************************************************************************)
TypeNames ==
    {"binaryblob", "boolean", "datetime", "double", "integer", "longinteger", "string"}

ScalarName(ty) == <<ty, "_endpoint">>
ArrayName(ty) == <<ty, "array", "_endpoint">>

\* str.endswith
EndsWith(s, suffix) ==
    /\ Len(s) >= Len(suffix)
    /\ SubSeq(s, Len(s) - Len(suffix) + 1, Len(s)) = suffix

(***************************************************************************)
(* Conversions of the Python library the codec calls                       *)
(***************************************************************************)
DigitChars == <<"0", "1", "2", "3", "4", "5", "6", "7", "8", "9">>

IsDigitChar(c) == \E d \in 1..10 : DigitChars[d] = c
DigitOfChar(c) == (CHOOSE d \in 1..10 : DigitChars[d] = c) - 1
IsDigitCode(c) == c \in 48..57

RECURSIVE DecimalValue(_)
\* The number a sequence of decimal digits denotes.
DecimalValue(ds) ==
    IF ds = <<>> THEN 0
    ELSE 10 * DecimalValue(SubSeq(ds, 1, Len(ds) - 1)) + ds[Len(ds)]

\* int(e)
py_int(e) ==
    IF e.t = "bool" THEN PyInt(IF e.v THEN 1 ELSE 0)
    ELSE IF e.t = "int" THEN e
    ELSE IF e.t = "double" THEN PyInt(IF e.v >= 0 THEN e.v \div 100 ELSE -((-e.v) \div 100))
    ELSE IF e.t = "str"
        THEN IF e.v # <<>> /\ \A i \in 1..Len(e.v) : IsDigitChar(e.v[i])
             THEN PyInt(DecimalValue([i \in 1..Len(e.v) |-> DigitOfChar(e.v[i])]))
             ELSE Raise("ValueError")
    ELSE IF e.t = "bytes"
        THEN IF e.v # <<>> /\ \A i \in 1..Len(e.v) : IsDigitCode(e.v[i])
             THEN PyInt(DecimalValue([i \in 1..Len(e.v) |-> e.v[i] - 48]))
             ELSE Raise("ValueError")
    ELSE Raise("TypeError")

\* The date-time lexemes of ISO-8601 text: wall-clock second and UTC offset.
IsoWall == {"T1000", "T4600"}
IsoOffset == {"Z", "+00:00", "+01:00"}

WallSeconds(w) == IF w = "T1000" THEN 1000 ELSE 4600
OffsetSeconds(o) == IF o = "+01:00" THEN 3600 ELSE 0

\* What dateutil builds from a bare number: a date in the current month.
DefaultDate == PyDatetime(-1)

\* dateutil.parser.parse(e): the instant is the wall clock minus the offset.
parser_parse(e) ==
    IF e.t # "str" THEN Raise("TypeError")
    ELSE IF Len(e.v) = 2 /\ e.v[1] \in IsoWall /\ e.v[2] \in IsoOffset
        THEN PyDatetime(WallSeconds(e.v[1]) - OffsetSeconds(e.v[2]))
    ELSE IF e.v # <<>> /\ \A i \in 1..Len(e.v) : IsDigitChar(e.v[i])
        THEN DefaultDate
    ELSE Raise("ValueError")

B64Alphabet ==
    <<"A", "B", "C", "D", "E", "F", "G", "H", "I", "J", "K", "L", "M",
      "N", "O", "P", "Q", "R", "S", "T", "U", "V", "W", "X", "Y", "Z",
      "a", "b", "c", "d", "e", "f", "g", "h", "i", "j", "k", "l", "m",
      "n", "o", "p", "q", "r", "s", "t", "u", "v", "w", "x", "y", "z",
      "0", "1", "2", "3", "4", "5", "6", "7", "8", "9", "+", "/">>

\* The 6-bit value of a character, 64 for the pad, -1 outside the alphabet.
SextetOfChar(c) ==
    IF c = "=" THEN 64
    ELSE IF \E k \in 1..64 : B64Alphabet[k] = c
        THEN (CHOOSE k \in 1..64 : B64Alphabet[k] = c) - 1
    ELSE -1

SextetOfCode(c) ==
    IF c = 61 THEN 64
    ELSE IF c \in 65..90 THEN c - 65
    ELSE IF c \in 97..122 THEN c - 71
    ELSE IF c \in 48..57 THEN c + 4
    ELSE IF c = 43 THEN 62
    ELSE IF c = 47 THEN 63
    ELSE -1

RECURSIVE SelectFrom(_, _)
\* The members of a sequence that lie in a set, in order.
SelectFrom(s, keep) ==
    IF s = <<>> THEN <<>>
    ELSE (IF s[1] \in keep THEN <<s[1]>> ELSE <<>>) \o SelectFrom(Tail(s), keep)

RECURSIVE BytesOfSextets(_)
\* Four sextets make three bytes; a tail of three makes two, of two makes one.
BytesOfSextets(x) ==
    IF Len(x) >= 4
    THEN LET n == x[1] * 262144 + x[2] * 4096 + x[3] * 64 + x[4]
         IN  <<n \div 65536, (n \div 256) % 256, n % 256>>
                \o BytesOfSextets(SubSeq(x, 5, Len(x)))
    ELSE IF Len(x) = 3
    THEN LET n == x[1] * 4096 + x[2] * 64 + x[3]
         IN  <<n \div 1024, (n \div 4) % 256>>
    ELSE IF Len(x) = 2 THEN <<(x[1] * 64 + x[2]) \div 16>>
    ELSE <<>>

\* The position of the first pad of a sextet sequence, or one past its end.
FirstPad(x) ==
    IF \E i \in 1..Len(x) : x[i] = 64
    THEN CHOOSE i \in 1..Len(x) : x[i] = 64 /\ \A j \in 1..(i - 1) : x[j] # 64
    ELSE Len(x) + 1

\* base64.b64decode(e): characters outside the alphabet are discarded.
b64decode(e) ==
    IF e.t \notin {"str", "bytes"} THEN Raise("TypeError")
    ELSE LET raw == IF e.t = "str"
                    THEN [i \in 1..Len(e.v) |-> SextetOfChar(e.v[i])]
                    ELSE [i \in 1..Len(e.v) |-> SextetOfCode(e.v[i])]
             x == SelectFrom(raw, 0..64)
             body == SubSeq(x, 1, FirstPad(x) - 1)
             pads == Len(x) - Len(body)
         IN  IF Len(body) % 4 = 1 THEN Raise("ValueError")
             ELSE IF Len(body) % 4 = 2 /\ pads < 2 THEN Raise("ValueError")
             ELSE IF Len(body) % 4 = 3 /\ pads < 1 THEN Raise("ValueError")
             ELSE PyBytes(BytesOfSextets(body))

RECURSIVE SextetsOfBytes(_)
\* Three bytes make four sextets; the tail is padded.
SextetsOfBytes(b) ==
    IF Len(b) >= 3
    THEN LET n == b[1] * 65536 + b[2] * 256 + b[3]
         IN  <<n \div 262144, (n \div 4096) % 64, (n \div 64) % 64, n % 64>>
                \o SextetsOfBytes(SubSeq(b, 4, Len(b)))
    ELSE IF Len(b) = 2
    THEN LET n == (b[1] * 256 + b[2]) * 4
         IN  <<n \div 4096, (n \div 64) % 64, n % 64, 64>>
    ELSE IF Len(b) = 1
    THEN LET n == b[1] * 16
         IN  <<n \div 64, n % 64, 64, 64>>
    ELSE <<>>

\* base64.b64encode(value).decode("utf-8")
b64encode_str(value) ==
    IF value.t # "bytes" THEN Raise("TypeError")
    ELSE LET x == SextetsOfBytes(value.v)
         IN  PyStr([i \in 1..Len(x) |-> IF x[i] = 64 THEN "=" ELSE B64Alphabet[x[i] + 1]])

\* What iterating a value yields, or the TypeError of a non-iterable.
IterItems(e) ==
    IF e.t = "list" THEN e
    ELSE IF e.t = "str" THEN PyList([i \in 1..Len(e.v) |-> PyStr(<<e.v[i]>>)])
    ELSE IF e.t = "bytes" THEN PyList([i \in 1..Len(e.v) |-> PyInt(e.v[i])])
    ELSE IF e.t = "dict" THEN PyList([i \in 1..Len(e.v) |-> PyStr(e.v[i].key)])
    ELSE Raise("TypeError")

\* The list a comprehension builds, or the first exception an item raised.
Gather(out) ==
    IF \E k \in 1..Len(out) : IsRaise(out[k])
    THEN out[CHOOSE k \in 1..Len(out) :
                IsRaise(out[k]) /\ \A j \in 1..(k - 1) : ~IsRaise(out[j])]
    ELSE PyList(out)

\* [int(dt) for dt in e]
IntEach(e) ==
    LET items == IterItems(e)
    IN  IF IsRaise(items) THEN items
        ELSE Gather([k \in 1..Len(items.v) |-> py_int(items.v[k])])

\* [parser.parse(dt) for dt in e]
ParseEach(e) ==
    LET items == IterItems(e)
    IN  IF IsRaise(items) THEN items
        ELSE Gather([k \in 1..Len(items.v) |-> parser_parse(items.v[k])])

\* [base64.b64decode(dt) for dt in e]
B64DecodeEach(e) ==
    LET items == IterItems(e)
    IN  IF IsRaise(items) THEN items
        ELSE Gather([k \in 1..Len(items.v) |-> b64decode(items.v[k])])

\* [base64.b64encode(v).decode("utf-8") for v in value]
B64EncodeEach(value) ==
    LET items == IterItems(value)
    IN  IF IsRaise(items) THEN items
        ELSE Gather([k \in 1..Len(items.v) |-> b64encode_str(items.v[k])])

(***************************************************************************)
(* http_requests.prepare_transmit_data and http_requests.decode_value      *)
(***************************************************************************)
\* A transmit function that leaves every value as it is.
prepare_transmit_data_plain(key, value) == value

prepare_transmit_data(key, value) ==
    IF key = ScalarName("binaryblob") THEN b64encode_str(value)
    ELSE IF key = ArrayName("binaryblob") THEN B64EncodeEach(value)
    ELSE value

\* A decoder that converts scalars only and leaves every array as it came.
decode_by_name_scalars_only(e, prop) ==
    IF prop = ScalarName("longinteger") THEN py_int(e)
    ELSE IF prop = ScalarName("datetime") THEN parser_parse(e)
    ELSE IF prop = ScalarName("binaryblob") THEN b64decode(e)
    ELSE e

\* The type conversions of decode_value, chosen by the whole field name.
decode_by_name(e, prop) ==
    IF prop = ScalarName("longinteger") THEN py_int(e)
    ELSE IF prop = ArrayName("longinteger") THEN IntEach(e)
    ELSE IF prop = ScalarName("datetime") THEN parser_parse(e)
    ELSE IF prop = ArrayName("datetime") THEN ParseEach(e)
    ELSE IF prop = ScalarName("binaryblob") THEN b64decode(e)
    ELSE IF prop = ArrayName("binaryblob") THEN B64DecodeEach(e)
    ELSE e

\* A decoder that converts by type before it looks at a null array.
decode_value_convert_first(recv, prop) ==
    LET d == decode_by_name(recv, prop)
    IN  IF EndsWith(prop, <<"array", "_endpoint">>) /\ d.t = "none"
        THEN PyList(<<>>)
        ELSE d

decode_value(recv, prop) ==
    IF EndsWith(prop, <<"array", "_endpoint">>) /\ recv.t = "none"
    THEN PyList(<<>>)
    ELSE decode_by_name(recv, prop)

(***************************************************************************)
(* The forms of a value on the wire                                        *)
(***************************************************************************)
RECURSIVE DecimalText(_)
\* str(n) of a natural number.
DecimalText(n) ==
    IF n < 10 THEN <<DigitChars[n + 1]>>
    ELSE Append(DecimalText(n \div 10), DigitChars[(n % 10) + 1])

\* The wall-clock lexeme of a second of the day.
WallText(s) == IF s = 1000 THEN "T1000" ELSE "T4600"

\* The character of a byte code, for the letters and digits.
CharOfCode(c) ==
    IF SextetOfCode(c) \in 0..63 THEN B64Alphabet[SextetOfCode(c) + 1] ELSE "?"

\* json.dumps(..., default=str) in post_server_data: what json cannot
\* serialize is replaced by its str(): an aware datetime in UTC prints its
\* wall clock and "+00:00", a bytes object prints as b'...'.
json_dumps(x) ==
    LET One(y) ==
            IF y.t = "datetime" THEN PyStr(<<WallText(y.v), "+00:00">>)
            ELSE IF y.t = "bytes"
                THEN PyStr(<<"b", "'">> \o [k \in 1..Len(y.v) |-> CharOfCode(y.v[k])]
                            \o <<"'">>)
            ELSE y
    IN  IF x.t = "list" THEN PyList([k \in 1..Len(x.v) |-> One(x.v[k])]) ELSE One(x)

\* The JSON the cloud hands back for what it was sent: a 64-bit integer as
\* its decimal string, a timestamp as ISO-8601 text in UTC.
cloud_json(field, x) ==
    LET Long(y) == IF y.t = "int" THEN PyStr(DecimalText(y.v)) ELSE y
        Iso(y) == IF y.t = "str" /\ Len(y.v) = 2 THEN PyStr(<<y.v[1], "Z">>) ELSE y
    IN  IF field = ScalarName("longinteger") THEN Long(x)
        ELSE IF field = ArrayName("longinteger") /\ x.t = "list"
            THEN PyList([k \in 1..Len(x.v) |-> Long(x.v[k])])
        ELSE IF field = ScalarName("datetime") THEN Iso(x)
        ELSE IF field = ArrayName("datetime") /\ x.t = "list"
            THEN PyList([k \in 1..Len(x.v) |-> Iso(x.v[k])])
        ELSE x

(***************************************************************************)
(* Dictionaries are sequences of [key, value] records in insertion order.  *)
(***************************************************************************)
HasKey(d, k) == \E n \in 1..Len(d) : d[n].key = k
Get(d, k) == d[CHOOSE n \in 1..Len(d) : d[n].key = k].value
Item(k, x) == [key |-> k, value |-> x]
PyDict(d) == [t |-> "dict", v |-> d]

(***************************************************************************)
(* interface_data.py, interface_data_*.py: the interface data variants     *)
(***************************************************************************)
\* range(0, 10) of InterfaceData.test
RetryBudget == 10

SEND_BASE_COMMAND == "send"
EXPECT_BASE_COMMAND == "expect"

Kinds == {"PropertySet", "PropertyUnset", "Aggregate", "Datastream"}
Ownership == {"DEVICE", "SERVER"}

\* The methods InterfaceData declares with @abstractmethod.
AbstractMethods ==
    {"_send_server_data", "_check_server_received_data",
     "_get_device_shell_commands", "_get_single_send_elements"}

\* The methods each variant class defines.
DefinedMethods(kind) ==
    IF kind = "Aggregate"
    THEN {"_send_server_data", "_check_server_received_data",
          "_get_device_shell_commands", "_get_single_send_elements"}
    ELSE {"_send_server_data", "_check_server_received_data",
          "_get_device_shell_commands"}

\* ABCMeta lets a class be instantiated only when no abstract method is left.
Instantiable(kind) == AbstractMethods \subseteq DefinedMethods(kind)

\* Evaluating the list literal of data.py constructs every fixture in order.
Constructible(fixtures) == \A n \in 1..Len(fixtures) : Instantiable(fixtures[n].kind)

\* Aggregate._get_single_send_elements: the whole object is one element.
Aggregate_get_single_send_elements(f) == <<f.items>>

Word(w) == [t |-> "word", v |-> w]

\* test_utilities.encode_shell_bson: the document {"v": value} in base64.
encode_shell_bson(value) == [t |-> "bson", v |-> value]

\* str.split("/") of a path that starts with a slash: a path is the sequence
\* of its segments, a segment the sequence of its lexemes.
Split(path) == <<<<>>>> \o path

\* Aggregate._get_device_shell_commands
Aggregate_get_device_shell_commands(f, base_command, elem) ==
    LET command == <<Word(base_command), Word("object"), Word(f.interface),
                     [t |-> "path", v |-> f.path], encode_shell_bson(elem)>>
    IN  IF f.timestamp.t # "none"
        THEN Append(command, [t |-> "millis", v |-> f.timestamp.v * 1000])
        ELSE command

RECURSIVE CheckEntries(_, _, _, _)
\* The loop of Aggregate._check_server_received_data from entry n on:
\* a KeyError is caught and answers False, any other exception propagates.
CheckEntries(f, entries, body, n) ==
    IF n > Len(entries) THEN PyBool(TRUE)
    ELSE LET key == entries[n].key
             parameter == Split(f.path)[2]
         IN  IF ~HasKey(body, parameter) THEN PyBool(FALSE)
             ELSE IF ~HasKey(Get(body, parameter)[1], key) THEN PyBool(FALSE)
             ELSE LET got_value == decode_value(Get(Get(body, parameter)[1], key), key)
                  IN  IF IsRaise(got_value) THEN got_value
                      ELSE IF ~compare_data(got_value, entries[n].value)
                          THEN PyBool(FALSE)
                      ELSE CheckEntries(f, entries, body, n + 1)

\* A check in which a parameter the response lacks escapes as KeyError.
Aggregate_check_server_received_data_uncaught(f, entries, body) ==
    IF ~HasKey(body, Split(f.path)[2]) THEN Raise("KeyError")
    ELSE CheckEntries(f, entries, body, 1)

Aggregate_check_server_received_data(f, entries, body) ==
    CheckEntries(f, entries, body, 1)

(***************************************************************************)
(* interface_data_property.py, interface_data_datastream.py                *)
(***************************************************************************)
Property(path, value) == [path |-> path, value |-> value]

DatastreamMapping(path, value, timestamp) ==
    [path |-> path, value |-> value, timestamp |-> timestamp]

\* PropertySet._get_device_shell_commands: one command for each property.
PropertySet_get_device_shell_commands(self, base_command) ==
    [k \in 1..Len(self.properties) |->
        <<Word(base_command), Word("property set"), Word(self.interface),
          [t |-> "path", v |-> self.properties[k].path],
          encode_shell_bson(self.properties[k].value)>>]

\* PropertyUnset._get_device_shell_commands: one command for each path.
PropertyUnset_get_device_shell_commands(self, base_command) ==
    [k \in 1..Len(self.unset) |->
        <<Word(base_command), Word("property unset"), Word(self.interface),
          [t |-> "path", v |-> self.unset[k]]>>]

\* A datastream command that never carries the time of the mapping.
Datastream_get_device_shell_commands_untimed(self, base_command) ==
    [k \in 1..Len(self.mappings) |->
        <<Word(base_command), Word("individual"), Word(self.interface),
          [t |-> "path", v |-> self.mappings[k].path],
          encode_shell_bson(self.mappings[k].value)>>]

\* Datastream._get_device_shell_commands: one command for each mapping,
\* with the epoch milliseconds of the mapping's timestamp if it has one.
Datastream_get_device_shell_commands(self, base_command) ==
    [k \in 1..Len(self.mappings) |->
        LET mapping == self.mappings[k]
            command == <<Word(base_command), Word("individual"), Word(self.interface),
                         [t |-> "path", v |-> mapping.path],
                         encode_shell_bson(mapping.value)>>
        IN  IF mapping.timestamp.t # "none"
            THEN Append(command, [t |-> "millis", v |-> mapping.timestamp.v * 1000])
            ELSE command]

RECURSIVE CheckUnset(_, _, _)
\* The loop of PropertyUnset._check_server_received_data from path n on: a
\* parameter the response lacks counts as the empty dict, anything else than
\* the empty dict raises ValueError, and the end of the loop is the end of
\* the method, which returns None.
CheckUnset(self, received_data, n) ==
    IF n > Len(self.unset) THEN PyNone
    ELSE LET prop == self.unset[n]
             paramter == Split(prop)[2]
             endpoint == Split(prop)[Len(Split(prop))]
             got_value == IF HasKey(received_data, paramter)
                          THEN decode_value(PyDict(Get(received_data, paramter)), endpoint)
                          ELSE PyDict(<<>>)
         IN  IF IsRaise(got_value) THEN got_value
             ELSE IF got_value.t # "dict" \/ got_value.v # <<>> THEN Raise("ValueError")
             ELSE CheckUnset(self, received_data, n + 1)

PropertyUnset_check_server_received_data(self, received_data) ==
    CheckUnset(self, received_data, 1)

(***************************************************************************)
(* http_requests.py: the cloud requests                                    *)
(***************************************************************************)
\* The status codes the cloud answers with.
Statuses == {200, 204, 500}

\* A GET wrapper that hands back the body whatever the status.
get_server_data_unchecked(status, body) == [t |-> "dict", v |-> body]

get_server_data(status, body) ==
    IF status # 200 THEN Raise("HTTPError") ELSE [t |-> "dict", v |-> body]

post_server_data(status) ==
    IF status # 200 THEN Raise("HTTPError") ELSE PyNone

unset_server_property(status) ==
    IF status # 204 THEN Raise("HTTPError") ELSE PyNone

(***************************************************************************)
(* cfgvalues.py                                                            *)
(***************************************************************************)
\* The keys CfgValues.__init__ reads, in the order it reads them.
ConfigKeys ==
    <<"CONFIG_ASTARTE_DEVICE_SDK_REALM_NAME", "CONFIG_DEVICE_ID",
      "CONFIG_E2E_APPENGINE_URL", "CONFIG_E2E_APPENGINE_TOKEN",
      "CONFIG_TLS_CERTIFICATE_PATH">>

KeySet == {ConfigKeys[n] : n \in 1..Len(ConfigKeys)}

\* The configuration before the file is read.
Unread == [k \in KeySet |-> "unread"]

\* A key of the file is absent (None), empty or holds a value.
KeyStates == {"absent", "empty", "set"}

\* A lookup that rejects only the absent key.
get_config_value_none_only(cfg, key) ==
    IF cfg[key] = "absent"
    THEN [t |-> "raise", v |-> "MissingConfigError", key |-> key]
    ELSE [t |-> "str", v |-> cfg[key], key |-> key]

\* CfgValues._get_config_value
get_config_value(cfg, key) ==
    IF cfg[key] = "absent" \/ cfg[key] = "empty"
    THEN [t |-> "raise", v |-> "MissingConfigError", key |-> key]
    ELSE [t |-> "str", v |-> cfg[key], key |-> key]

\* CfgValues.__init__: the first key that fails ends the construction.
CfgValues(cfg) ==
    IF \E n \in 1..Len(ConfigKeys) : IsRaise(get_config_value(cfg, ConfigKeys[n]))
    THEN get_config_value(cfg,
            ConfigKeys[CHOOSE n \in 1..Len(ConfigKeys) :
                /\ IsRaise(get_config_value(cfg, ConfigKeys[n]))
                /\ \A m \in 1..(n - 1) : ~IsRaise(get_config_value(cfg, ConfigKeys[m]))])
    ELSE [t |-> "CfgValues", v |-> "", key |-> ""]

(***************************************************************************)
(* State                                                                   *)
(***************************************************************************)
VARIABLES
    call,           \* the pure function applied and its arguments
    result,         \* what the call returned, once it has returned
    data,           \* the fixture list of data.py
    pc,             \* where the pytest session stands
    config,         \* the keys of the .config file as dotenv_values read them
    vi,             \* test_device: index of interface_data in data
    ei,             \* InterfaceData.test: index of send in the elements
    i,              \* InterfaceData.test: the retry counter
    raised,         \* the exception that ended the session, or "none"
    trace,          \* every interaction with the device and the cloud so far
    received_data,  \* the body of the last GET
    device_failed   \* the device saw server data that differs from its expectation

codecVars == <<call, result>>
runVars == <<data, pc, config, vi, ei, i, raised, trace, received_data, device_failed>>
vars == <<call, result, data, pc, config, vi, ei, i, raised, trace, received_data,
          device_failed>>

(***************************************************************************)
(* The pure functions applied to every value of a bounded universe         *)
(***************************************************************************)
RECURSIVE SeqsUpTo(_, _)
\* The sequences over S of length at most n.
SeqsUpTo(S, n) ==
    IF n = 0 THEN {<<>>}
    ELSE LET shorter == SeqsUpTo(S, n - 1)
         IN  shorter \cup {Append(q, x) : q \in shorter, x \in S}

PyScalars ==
    {PyNone, PyBool(TRUE), PyInt(1), PyInt(2), PyFloat(100), PyStr(<<"1">>),
     PyBytes(<<72>>), PyDatetime(1000)}

PyValues == PyScalars \cup {PyList(q) : q \in SeqsUpTo(PyScalars, MaxLen)}

\* What the cloud may hand back as JSON: "SA==" is the base64 text of byte 72.
JsonScalars ==
    {PyNone, PyBool(TRUE), PyInt(1), PyStr(<<"1">>), PyStr(<<"x">>),
     PyStr(<<"T1000", "Z">>), PyStr(<<"T4600", "+01:00">>),
     PyStr(<<"S", "A", "=", "=">>)}

JsonValues == JsonScalars \cup {PyList(q) : q \in SeqsUpTo(JsonScalars, MaxLen)}

FieldNames ==
    {ScalarName(ty) : ty \in TypeNames} \cup {ArrayName(ty) : ty \in TypeNames}
        \cup {<<"array", "_endpoint">>, <<"sensor">>, <<"array", "_endpoint", "s">>}

\* The parameter the properties of data.py live under.
PropertyParameter(own) == IF own = "DEVICE" THEN <<"sensor36">> ELSE <<"path84">>

PropertyInterface(own) == IF own = "DEVICE" THEN "DeviceProperty" ELSE "ServerProperty"

\* The fields of a PropertySet of data.py, two of its properties kept.
PropertySetObject(own) ==
    [interface |-> PropertyInterface(own),
     ownership |-> own,
     properties |->
        <<Property(<<PropertyParameter(own), ScalarName("integer")>>, PyInt(42)),
          Property(<<PropertyParameter(own), ArrayName("longinteger")>>,
                   PyList(<<PyInt(1), PyInt(2)>>))>>]

\* The fields of a PropertyUnset of data.py, over the same two paths.
PropertyUnsetObject(own) ==
    [interface |-> PropertyInterface(own),
     ownership |-> own,
     unset |-> <<<<PropertyParameter(own), ScalarName("integer")>>,
                 <<PropertyParameter(own), ArrayName("longinteger")>>>>]

\* The fields of a Datastream of data.py: a mapping with a timestamp and
\* one without.
DatastreamObject(own) ==
    [interface |-> IF own = "DEVICE" THEN "DeviceDatastream" ELSE "ServerDatastream",
     ownership |-> own,
     mappings |->
        <<DatastreamMapping(<<ScalarName("integer")>>, PyInt(42), PyDatetime(1000)),
          DatastreamMapping(<<ArrayName("longinteger")>>,
                            PyList(<<PyInt(1), PyInt(2)>>), PyNone)>>]

\* The fields of an Aggregate of data.py: the SERVER one has a timestamp.
AggregateObject(own) ==
    [interface |-> IF own = "DEVICE" THEN "DeviceAggregate" ELSE "ServerAggregate",
     ownership |-> own,
     path |-> IF own = "DEVICE" THEN <<<<"sensor42">>>> ELSE <<<<"path37">>>>,
     items |-> <<Item(ScalarName("integer"), PyInt(42)),
                 Item(ArrayName("longinteger"), PyList(<<PyInt(1), PyInt(2)>>))>>,
     timestamp |-> IF own = "SERVER" THEN PyDatetime(1000) ELSE PyNone]

\* The objects of data.py by class.
Objects ==
    {[t |-> "PropertySet", v |-> PropertySetObject(o)] : o \in Ownership}
        \cup {[t |-> "PropertyUnset", v |-> PropertyUnsetObject(o)] : o \in Ownership}
        \cup {[t |-> "Datastream", v |-> DatastreamObject(o)] : o \in Ownership}
        \cup {[t |-> "Aggregate", v |-> AggregateObject(o)] : o \in Ownership}

\* The bodies the cloud answers a GET of a property interface with: nothing
\* stored, the parameter with nothing under it, the parameter with a property
\* still set.
PropertyBodies(own) ==
    {<<>>,
     <<Item(PropertyParameter(own), <<>>)>>,
     <<Item(PropertyParameter(own), <<Item(ScalarName("integer"), PyInt(42))>>)>>}

\* The values data.py gives to the fields of each type.
TypedScalars(ty) ==
    IF ty = "binaryblob"
    THEN {PyBytes(<<>>), PyBytes(<<72>>), PyBytes(<<72, 105>>), PyBytes(<<72, 105, 33>>)}
    ELSE IF ty = "boolean" THEN {PyBool(TRUE), PyBool(FALSE)}
    ELSE IF ty = "datetime" THEN {PyDatetime(1000), PyDatetime(4600)}
    ELSE IF ty = "double" THEN {PyFloat(1542), PyFloat(100)}
    ELSE IF ty = "integer" THEN {PyInt(42), PyInt(0)}
    ELSE IF ty = "longinteger" THEN {PyInt(0), PyInt(120)}
    ELSE {PyStr(<<"H", "i">>), PyStr(<<>>)}

\* A field name with a value of the type it names, scalar or array.
SupportedPairs ==
    UNION {{[prop |-> ScalarName(ty), a |-> x] : x \in TypedScalars(ty)}
            \cup {[prop |-> ArrayName(ty), a |-> PyList(q)] :
                    q \in SeqsUpTo(TypedScalars(ty), MaxLen)} : ty \in TypeNames}

Calls ==
    [fn : {"compare_data"}, a : PyValues, b : PyValues, prop : {<<>>}]
        \cup [fn : {"decode_value"}, a : JsonValues, b : {PyNone}, prop : FieldNames]
        \cup {[fn |-> f, a |-> sp.a, b |-> PyNone, prop |-> sp.prop] :
                f \in {"round_trip", "wire_round_trip"}, sp \in SupportedPairs}
        \cup UNION {{[fn |-> "check_server_received_data",
                      a |-> [t |-> "PropertyUnset", v |-> PropertyUnsetObject(o)],
                      b |-> [t |-> "response", v |-> [status |-> st, body |-> body]],
                      prop |-> <<>>] :
                        st \in Statuses, body \in PropertyBodies(o)} : o \in Ownership}
        \cup {[fn |-> "get_device_shell_commands", a |-> o, b |-> PyNone,
               prop |-> <<base>>] :
                o \in Objects, base \in {SEND_BASE_COMMAND, EXPECT_BASE_COMMAND}}

Pending == [done |-> FALSE, val |-> PyNone]
Returned(x) == [done |-> TRUE, val |-> x]

IdleRun ==
    /\ data = <<>>
    /\ pc = "idle"
    /\ config = Unread
    /\ vi = 0
    /\ ei = 0
    /\ i = 0
    /\ raised = "none"
    /\ trace = <<>>
    /\ received_data = <<>>
    /\ device_failed = FALSE

InitCodec ==
    /\ call \in Calls
    /\ result = Pending
    /\ IdleRun

CallCompareData ==
    /\ call.fn = "compare_data"
    /\ ~result.done
    /\ result' = Returned(PyBool(compare_data(call.a, call.b)))
    /\ UNCHANGED <<call, runVars>>

CallDecodeValue ==
    /\ call.fn = "decode_value"
    /\ ~result.done
    /\ result' = Returned(decode_value(call.a, call.prop))
    /\ UNCHANGED <<call, runVars>>

\* decode_value applied to what prepare_transmit_data returns.
CallRoundTrip ==
    /\ call.fn = "round_trip"
    /\ ~result.done
    /\ LET sent == prepare_transmit_data(call.prop, call.a)
       IN  result' = Returned(IF IsRaise(sent) THEN sent
                              ELSE decode_value(sent, call.prop))
    /\ UNCHANGED <<call, runVars>>

\* decode_value applied to what the cloud hands back for the value posted.
CallWireRoundTrip ==
    /\ call.fn = "wire_round_trip"
    /\ ~result.done
    /\ LET sent == prepare_transmit_data(call.prop, call.a)
       IN  result' = Returned(IF IsRaise(sent) THEN sent
                              ELSE decode_value(cloud_json(call.prop, json_dumps(sent)),
                                                call.prop))
    /\ UNCHANGED <<call, runVars>>

\* _get_device_shell_commands of the object's class: the commands it renders,
\* for an Aggregate the one command of its entries.
CallGetDeviceShellCommands ==
    /\ call.fn = "get_device_shell_commands"
    /\ ~result.done
    /\ LET self == call.a.v
           base_command == call.prop[1]
       IN  result' = Returned(
               IF call.a.t = "PropertySet"
               THEN PropertySet_get_device_shell_commands(self, base_command)
               ELSE IF call.a.t = "PropertyUnset"
               THEN PropertyUnset_get_device_shell_commands(self, base_command)
               ELSE IF call.a.t = "Datastream"
               THEN Datastream_get_device_shell_commands(self, base_command)
               ELSE <<Aggregate_get_device_shell_commands(self, base_command,
                                                          self.items)>>)
    /\ UNCHANGED <<call, runVars>>

\* _check_server_received_data of a PropertyUnset: the GET, then the loop.
CallCheckServerReceivedData ==
    /\ call.fn = "check_server_received_data"
    /\ ~result.done
    /\ LET got == get_server_data(call.b.v.status, call.b.v.body)
       IN  result' = Returned(
               IF IsRaise(got) THEN got
               ELSE PropertyUnset_check_server_received_data(call.a.v, got.v))
    /\ UNCHANGED <<call, runVars>>

NextCodec ==
    \/ CallCheckServerReceivedData
    \/ CallCompareData
    \/ CallDecodeValue
    \/ CallRoundTrip
    \/ CallWireRoundTrip
    \/ CallGetDeviceShellCommands

SpecCodec == InitCodec /\ [][NextCodec]_vars

(***************************************************************************)
(* Properties of the comparator and the codec                              *)
(***************************************************************************)
ComparedLists ==
    /\ result.done
    /\ call.fn = "compare_data"
    /\ call.a.t = "list"
    /\ call.b.t = "list"

\* C8: two sequences compare equal if and only if they have the same length
\* and the elements at every index compare equal; sequences of different
\* length never compare equal.
C8_ListsEqualIffSameLengthAndPairwise ==
    ComparedLists =>
        (result.val.v <=>
            /\ Len(call.a.v) = Len(call.b.v)
            /\ \A k \in 1..Len(call.a.v) : compare_data(call.a.v[k], call.b.v[k]))

\* C9: the comparator is symmetric: compare_data(a, b) is compare_data(b, a)
\* for scalars and arrays, of any kinds and lengths.
C9_CompareSymmetric ==
    (result.done /\ call.fn = "compare_data") =>
        (result.val.v <=> compare_data(call.b, call.a))

C9_ComparedListsOfDifferentLength ==
    /\ ComparedLists
    /\ Len(call.a.v) < Len(call.b.v)
    /\ Len(call.a.v) > 0
    /\ result.val.v

\* C10: a null cloud value of a field whose name ends in "array_endpoint"
\* decodes to the empty sequence, whatever type the name denotes, and never
\* to an error.
C10_NullArrayDecodesEmpty ==
    (/\ result.done
     /\ call.fn = "decode_value"
     /\ EndsWith(call.prop, <<"array", "_endpoint">>)
     /\ call.a.t = "none") => result.val = PyList(<<>>)

C10_DecodedNullLongIntegerArray ==
    /\ result.done
    /\ call.fn = "decode_value"
    /\ call.prop = ArrayName("longinteger")
    /\ call.a.t = "none"
    /\ result.val = PyList(<<>>)

\* The value is a timestamp or a list that holds one.
HoldsDatetime(x) ==
    \/ x.t = "datetime"
    \/ x.t = "list" /\ \E k \in 1..Len(x.v) : x.v[k].t = "datetime"

\* The value is equal to the other under the comparator, item for item.
SameValue(got, want) ==
    /\ ~IsRaise(got)
    /\ compare_data(got, want)
    /\ got.t = "list" => Len(got.v) = Len(want.v)

\* C11 as stated: decoding what prepare_transmit_data returns gives the
\* value back, for every supported scalar and array type.
C11_DirectRoundTrip ==
    (result.done /\ call.fn = "round_trip") => SameValue(result.val, call.a)

\* C11 as amended: decoding the form the value has on the wire gives the
\* value back for every supported type; decoding what prepare_transmit_data
\* returns does so for every type but the timestamps, where a datetime
\* object makes the decoder raise TypeError.
C11_RoundTripOnTheWire ==
    /\ (result.done /\ call.fn = "wire_round_trip") => SameValue(result.val, call.a)
    /\ (result.done /\ call.fn = "round_trip") =>
            IF HoldsDatetime(call.a)
            THEN result.val = Raise("TypeError")
            ELSE SameValue(result.val, call.a)

C11_TimestampArrayBackFromTheWire ==
    /\ result.done
    /\ call.fn = "wire_round_trip"
    /\ call.prop = ArrayName("datetime")
    /\ call.a = PyList(<<PyDatetime(1000), PyDatetime(4600)>>)
    /\ result.val = call.a

\* The types whose values the cloud hands back in another form.
ConvertedTypes == {"longinteger", "datetime", "binaryblob"}

\* What the table does to one value of a type.
ScalarConversion(ty, x) ==
    IF ty = "longinteger" THEN py_int(x)
    ELSE IF ty = "datetime" THEN parser_parse(x)
    ELSE IF ty = "binaryblob" THEN b64decode(x)
    ELSE x

\* C16: for a value that is not null, decode_value parses a longinteger as
\* an integer, a datetime as ISO-8601 text into an instant in UTC and a
\* binaryblob as base64; for the array fields of these types it does so to
\* each item, keeping their number and order; under every other field name
\* the value comes back unchanged.
C16_DispatchTable ==
    (result.done /\ call.fn = "decode_value" /\ call.a.t # "none") =>
        /\ \A ty \in ConvertedTypes :
            /\ call.prop = ScalarName(ty) => result.val = ScalarConversion(ty, call.a)
            /\ (call.prop = ArrayName(ty) /\ call.a.t = "list") =>
                    IF \E k \in 1..Len(call.a.v) : IsRaise(ScalarConversion(ty, call.a.v[k]))
                    THEN IsRaise(result.val)
                    ELSE /\ result.val.t = "list"
                         /\ Len(result.val.v) = Len(call.a.v)
                         /\ \A k \in 1..Len(call.a.v) :
                                result.val.v[k] = ScalarConversion(ty, call.a.v[k])
        /\ (call.prop = ScalarName("datetime") /\ call.a.t = "str" /\ Len(call.a.v) = 2) =>
                result.val = PyDatetime(WallSeconds(call.a.v[1]) - OffsetSeconds(call.a.v[2]))
        /\ (\A ty \in ConvertedTypes : call.prop \notin {ScalarName(ty), ArrayName(ty)}) =>
                result.val = call.a

C16_DecodedTimestampArray ==
    /\ result.done
    /\ call.fn = "decode_value"
    /\ call.prop = ArrayName("datetime")
    /\ call.a = PyList(<<PyStr(<<"T1000", "Z">>), PyStr(<<"T4600", "+01:00">>)>>)
    /\ result.val = PyList(<<PyDatetime(1000), PyDatetime(1000)>>)

\* The kind word of the command grammar for each class.
KindWord(class) ==
    IF class = "Datastream" THEN "individual"
    ELSE IF class = "Aggregate" THEN "object"
    ELSE IF class = "PropertySet" THEN "property set"
    ELSE "property unset"

\* What an object sends one command for: each with its path, its value and
\* its timestamp, where it has them.
Units(o) ==
    IF o.t = "PropertySet"
    THEN [k \in 1..Len(o.v.properties) |->
            [path |-> o.v.properties[k].path, value |-> o.v.properties[k].value,
             timestamp |-> PyNone]]
    ELSE IF o.t = "PropertyUnset"
    THEN [k \in 1..Len(o.v.unset) |->
            [path |-> o.v.unset[k], value |-> PyNone, timestamp |-> PyNone]]
    ELSE IF o.t = "Datastream"
    THEN [k \in 1..Len(o.v.mappings) |->
            [path |-> o.v.mappings[k].path, value |-> o.v.mappings[k].value,
             timestamp |-> o.v.mappings[k].timestamp]]
    ELSE <<[path |-> o.v.path, value |-> o.v.items, timestamp |-> o.v.timestamp]>>

LacksTheParameter ==
    /\ call.b.v.status = 200
    /\ \A k \in 1..Len(call.a.v.unset) :
            ~HasKey(call.b.v.body, Split(call.a.v.unset[k])[2])

\* C13: for a response that lacks the parameter key, the check of a
\* PropertyUnset returns true, so that the polling loop stops there.
C13_UnsetLookupMissReturnsTrue ==
    (result.done /\ call.fn = "check_server_received_data" /\ LacksTheParameter)
        => result.val = PyBool(TRUE)

(***************************************************************************)
(* data.py: the fixtures, with payloads cut down to two fields             *)
(***************************************************************************)
InterfaceName(kind, own) ==
    IF kind \in {"PropertySet", "PropertyUnset"}
    THEN (IF own = "DEVICE" THEN "DeviceProperty" ELSE "ServerProperty")
    ELSE IF kind = "Aggregate"
    THEN (IF own = "DEVICE" THEN "DeviceAggregate" ELSE "ServerAggregate")
    ELSE (IF own = "DEVICE" THEN "DeviceDatastream" ELSE "ServerDatastream")

Entries ==
    <<Item(ScalarName("integer"), PyInt(42)),
      Item(ArrayName("longinteger"), PyList(<<PyInt(1), PyInt(2)>>))>>

Fixture(kind, own) ==
    [kind |-> kind,
     interface |-> InterfaceName(kind, own),
     ownership |-> own,
     path |-> IF kind = "Aggregate"
              THEN (IF own = "DEVICE" THEN <<<<"sensor42">>>> ELSE <<<<"path37">>>>)
              ELSE <<>>,
     items |-> Entries,
     timestamp |-> IF kind = "Aggregate" /\ own = "SERVER"
                   THEN PyDatetime(1000) ELSE PyNone]

Fixtures == {Fixture(k, o) : k \in Kinds, o \in Ownership}

DataPy ==
    <<Fixture("PropertySet", "DEVICE"), Fixture("PropertySet", "SERVER"),
      Fixture("Aggregate", "DEVICE"), Fixture("Aggregate", "SERVER"),
      Fixture("Datastream", "DEVICE"), Fixture("Datastream", "SERVER"),
      Fixture("PropertyUnset", "DEVICE"), Fixture("PropertyUnset", "SERVER")>>

FixtureLists == {DataPy} \cup SeqsUpTo(Fixtures, MaxFixtures)

\* The bodies the cloud answers a GET of an aggregate interface with: no
\* data yet, the object sent, an object that lacks a field, one with another
\* integer, one whose array came back shorter.
Bodies(f) ==
    LET parameter == Split(f.path)[2]
        sent == Item(ArrayName("longinteger"),
                     PyList(<<PyStr(<<"1">>), PyStr(<<"2">>)>>))
        short == Item(ArrayName("longinteger"), PyList(<<PyStr(<<"1">>)>>))
    IN  {<<>>,
         <<Item(parameter, <<<<Item(ScalarName("integer"), PyInt(42)), sent>>>>)>>,
         <<Item(parameter, <<<<Item(ScalarName("integer"), PyInt(42))>>>>)>>,
         <<Item(parameter, <<<<Item(ScalarName("integer"), PyInt(41)), sent>>>>)>>,
         <<Item(parameter, <<<<Item(ScalarName("integer"), PyInt(42)), short>>>>)>>}

(***************************************************************************)
(* The device, as the harness sees it                                      *)
(***************************************************************************)
\* The value the device receives equals the one it was told to expect, or not.
DeviceReceives == BOOLEAN

\* A device that saw a mismatch fails its own assertion and never prints the
\* "Disconnected, closing shell..." line.
DeviceAcks(failed) == IF failed THEN {FALSE} ELSE BOOLEAN

(***************************************************************************)
(* The pytest session: collection, fixtures, test_device                   *)
(***************************************************************************)
NoException == [type |-> "none", key |-> ""]
Exception(x) == [type |-> x, key |-> ""]

\* One interaction with the device or the cloud: the command written and
\* whether the prompt came back, or the request, its status and its answer.
Ev(op, v, e, cmd, status, ok, exc) ==
    [op |-> op, vi |-> v, ei |-> e, cmd |-> cmd, status |-> status, ok |-> ok,
     exc |-> exc]

\* for send in self._get_single_send_elements()
single_send_elements(f) ==
    IF f.kind = "Aggregate" THEN Aggregate_get_single_send_elements(f) ELSE <<>>

Init ==
    /\ call = [fn |-> "none", a |-> PyNone, b |-> PyNone, prop |-> <<>>]
    /\ result = Pending
    /\ data \in FixtureLists
    /\ pc = "collect"
    /\ config = Unread
    /\ vi = 0
    /\ ei = 0
    /\ i = 0
    /\ raised = NoException
    /\ trace = <<>>
    /\ received_data = <<>>
    /\ device_failed = FALSE

\* Collection imports test_e2e.py, which imports data.py.
ImportData ==
    /\ pc = "collect"
    /\ IF Constructible(data)
       THEN pc' = "setup" /\ raised' = raised
       ELSE pc' = "done" /\ raised' = Exception("TypeError")
    /\ UNCHANGED <<codecVars, data, config, vi, ei, i, trace, received_data, device_failed>>

\* The session fixture astarte_cfg builds CfgValues from the .config file.
astarte_cfg ==
    /\ pc = "setup"
    /\ \E cfg \in [KeySet -> KeyStates] :
        /\ config' = cfg
        /\ IF IsRaise(CfgValues(cfg))
           THEN /\ raised' = [type |-> CfgValues(cfg).v, key |-> CfgValues(cfg).key]
                /\ pc' = "done"
           ELSE /\ raised' = raised
                /\ pc' = "launch"
    /\ UNCHANGED <<codecVars, data, vi, ei, i, trace, received_data, device_failed>>

\* A launch that goes on to the fixtures whether the banner came or not.
LaunchDevice_unchecked ==
    /\ pc = "launch"
    /\ \E banner \in BOOLEAN :
        trace' = trace \o <<Ev("launch", 0, 0, <<>>, 0, TRUE, "none"),
                             Ev("ready", 0, 0, <<>>, 0, banner, "none")>>
    /\ pc' = "loop"
    /\ UNCHANGED <<codecVars, data, config, vi, ei, i, raised, received_data,
                   device_failed>>

\* test_device: dut.launch() and readlines_until("Device shell ready$").
LaunchDevice ==
    /\ pc = "launch"
    /\ \E banner \in BOOLEAN :
        /\ trace' = trace \o <<Ev("launch", 0, 0, <<>>, 0, TRUE, "none"),
                                Ev("ready", 0, 0, <<>>, 0, banner, "none")>>
        /\ IF banner
           THEN pc' = "loop" /\ raised' = raised
           ELSE pc' = "done" /\ raised' = Exception("TwisterHarnessTimeoutException")
    /\ UNCHANGED <<codecVars, data, config, vi, ei, i, received_data, device_failed>>

\* test_device: the next interface_data of data, and the call of its test().
EnterTest ==
    /\ pc = "loop"
    /\ vi < Len(data)
    /\ vi' = vi + 1
    /\ ei' = 0
    /\ trace' = Append(trace, Ev("test", vi + 1, 0, <<>>, 0, TRUE, "none"))
    /\ pc' = "element"
    /\ UNCHANGED <<codecVars, data, config, i, raised, received_data, device_failed>>

\* TestcaseHelper.exec_command: write the command, wait for the prompt.
exec_command(v, e, command, prompt) ==
    Ev("cmd", v, e, command, 0, prompt,
       IF prompt THEN "none" ELSE "TwisterHarnessTimeoutException")

\* Aggregate._send_server_data: one POST of the whole object.
Aggregate_send_server_data(v, e, status) ==
    Ev("POST", v, e, <<>>, status, ~IsRaise(post_server_data(status)),
       IF IsRaise(post_server_data(status)) THEN post_server_data(status).v ELSE "none")

\* A server branch that pushes the value before the device expects it.
ServerBranch_send_first(f, v, e, send, prompt, status) ==
    LET post == Aggregate_send_server_data(v, e, status)
        cmd == exec_command(v, e,
                   Aggregate_get_device_shell_commands(f, EXPECT_BASE_COMMAND, send),
                   prompt)
    IN  IF post.exc # "none" THEN <<post>> ELSE <<post, cmd>>

\* A server branch that writes the verb of the device branch.
ServerBranch_send_verb(f, v, e, send, prompt, status) ==
    LET cmd == exec_command(v, e,
                   Aggregate_get_device_shell_commands(f, SEND_BASE_COMMAND, send),
                   prompt)
        post == Aggregate_send_server_data(v, e, status)
    IN  IF cmd.exc # "none" THEN <<cmd>> ELSE <<cmd, post>>

\* InterfaceData.test, SERVER branch: what it does for one element, up to
\* the first exception.
ServerBranch(f, v, e, send, prompt, status) ==
    LET cmd == exec_command(v, e,
                   Aggregate_get_device_shell_commands(f, EXPECT_BASE_COMMAND, send),
                   prompt)
        post == Aggregate_send_server_data(v, e, status)
    IN  IF cmd.exc # "none" THEN <<cmd>> ELSE <<cmd, post>>

Last(s) == s[Len(s)]

\* InterfaceData.test, SERVER branch: exec_command(expect ...),
\* _send_server_data, sleep.
ServerElement ==
    /\ pc = "element"
    /\ ei < Len(single_send_elements(data[vi]))
    /\ data[vi].ownership = "SERVER"
    /\ \E prompt \in BOOLEAN, status \in Statuses, match \in DeviceReceives :
        LET f == data[vi]
            send == single_send_elements(f)[ei + 1]
            done == ServerBranch(f, vi, ei + 1, send, prompt, status)
        IN  /\ ei' = ei + 1
            /\ trace' = trace \o done
            /\ IF Last(done).exc # "none"
               THEN /\ raised' = Exception(Last(done).exc)
                    /\ pc' = "done"
                    /\ UNCHANGED device_failed
               ELSE /\ raised' = raised
                    /\ pc' = "element"
                    /\ device_failed' = (device_failed \/ ~match)
    /\ UNCHANGED <<codecVars, data, config, vi, i, received_data>>

\* InterfaceData.test, DEVICE branch: exec_command(send ...).
DeviceElement ==
    /\ pc = "element"
    /\ ei < Len(single_send_elements(data[vi]))
    /\ data[vi].ownership = "DEVICE"
    /\ \E prompt \in BOOLEAN :
        LET f == data[vi]
            send == single_send_elements(f)[ei + 1]
            cmd == exec_command(vi, ei + 1,
                       Aggregate_get_device_shell_commands(f, SEND_BASE_COMMAND, send),
                       prompt)
        IN  /\ ei' = ei + 1
            /\ i' = 0
            /\ trace' = Append(trace, cmd)
            /\ IF prompt
               THEN pc' = "polling" /\ raised' = raised
               ELSE pc' = "done" /\ raised' = Exception(cmd.exc)
    /\ UNCHANGED <<codecVars, data, config, vi, received_data, device_failed>>

\* A retry loop that runs once more than its budget.
AfterFailedAttempt_one_more(n) == IF n < RetryBudget THEN "polling" ELSE "element"

\* A retry loop that ends the run when its budget is spent.
AfterFailedAttempt_strict(n) == IF n + 1 < RetryBudget THEN "polling" ELSE "done"

\* Where a failed attempt i leaves the loop: range(0, 10) ends after attempt
\* 9, and nothing follows the loop in the body of the element.
AfterFailedAttempt(n) == IF n + 1 < RetryBudget THEN "polling" ELSE "element"

\* InterfaceData.test, DEVICE branch: one attempt of the retry loop.
Poll ==
    /\ pc = "polling"
    /\ \E status \in Statuses, body \in Bodies(data[vi]) :
        LET f == data[vi]
            send == single_send_elements(f)[ei]
            got == get_server_data(status, body)
            res == Aggregate_check_server_received_data(f, send, got.v)
        IN  IF IsRaise(got)
            THEN /\ trace' = Append(trace, Ev("GET", vi, ei, <<>>, status, FALSE, got.v))
                 /\ raised' = Exception(got.v)
                 /\ pc' = "done"
                 /\ UNCHANGED <<i, received_data>>
            ELSE IF IsRaise(res)
            THEN /\ trace' = Append(trace, Ev("GET", vi, ei, <<>>, status, FALSE, res.v))
                 /\ raised' = Exception(res.v)
                 /\ pc' = "done"
                 /\ received_data' = got.v
                 /\ UNCHANGED i
            ELSE /\ trace' = Append(trace, Ev("GET", vi, ei, <<>>, status, res.v, "none"))
                 /\ raised' = raised
                 /\ received_data' = got.v
                 /\ IF res.v
                    THEN pc' = "element" /\ i' = i
                    ELSE pc' = AfterFailedAttempt(i) /\ i' = i + 1
    /\ UNCHANGED <<codecVars, data, config, vi, ei, device_failed>>

\* InterfaceData.test returns once every element has been handled.
TestReturn ==
    /\ pc = "element"
    /\ ei = Len(single_send_elements(data[vi]))
    /\ trace' = Append(trace, Ev("return", vi, ei, <<>>, 0, TRUE, "none"))
    /\ pc' = "loop"
    /\ UNCHANGED <<codecVars, data, config, vi, ei, i, raised, received_data, device_failed>>

\* A final step that takes any answer of the device for the acknowledgement.
AssertDisconnected_unchecked(ack) == NoException

\* assert "Disconnected, closing shell..." in lines
AssertDisconnected(ack) ==
    IF ack THEN NoException ELSE Exception("AssertionError")

\* test_device: shell.exec_command("disconnect") and the final assertion.
Disconnect ==
    /\ pc = "loop"
    /\ vi = Len(data)
    /\ \E ack \in DeviceAcks(device_failed) :
        /\ trace' = Append(trace,
                        Ev("disconnect", 0, 0, <<Word("disconnect")>>, 0, ack,
                           AssertDisconnected(ack).type))
        /\ raised' = AssertDisconnected(ack)
    /\ pc' = "done"
    /\ UNCHANGED <<codecVars, data, config, vi, ei, i, received_data, device_failed>>

Next ==
    \/ ImportData
    \/ astarte_cfg
    \/ LaunchDevice
    \/ EnterTest
    \/ ServerElement
    \/ DeviceElement
    \/ Poll
    \/ TestReturn
    \/ Disconnect

Spec == Init /\ [][Next]_vars

(***************************************************************************)
(* Properties of the session                                               *)
(***************************************************************************)
\* The positions of the trace at which element e of variant v did op.
At(op, v, e) ==
    {n \in 1..Len(trace) : trace[n].op = op /\ trace[n].vi = v /\ trace[n].ei = e}

\* The positions of the trace at which op was done at all.
AtAny(op) == {n \in 1..Len(trace) : trace[n].op = op}

MaxOf(S) == CHOOSE n \in S : \A m \in S : m <= n

\* The elements of the owner's variants, as pairs <<variant, element>>.
Elements(own) ==
    UNION {{<<v, e>> : e \in 1..Len(single_send_elements(data[v]))} :
              v \in {w \in 1..Len(data) : data[w].ownership = own}}

\* The protocol of element e of variant v has finished: the test went on to
\* a later element or returned.
Completed(v, e) ==
    \E n \in 1..Len(trace) :
        /\ trace[n].vi = v
        /\ trace[n].op = "return" \/ trace[n].ei > e

\* A check that came back with False: the request succeeded, nothing raised.
ReturnedFailure(n) ==
    trace[n].op = "GET" /\ trace[n].exc = "none" /\ ~trace[n].ok

TransportErrors == {"HTTPError", "TwisterHarnessTimeoutException"}

\* C1: with the fixture list of data.py, a run that meets no transport error
\* invokes the protocol of each of the eight variants once, in list order,
\* and then issues one disconnect command.
C1_EachProtocolOnceThenDisconnect ==
    (data = DataPy /\ pc = "done" /\ raised.type \notin TransportErrors) =>
        /\ \A v \in 1..Len(data) : Cardinality(At("test", v, 0)) = 1
        /\ \A v, w \in 1..Len(data) :
            v < w => MaxOf(At("test", v, 0)) < MaxOf(At("test", w, 0))
        /\ Cardinality(AtAny("disconnect")) = 1
        /\ \A n \in AtAny("return") : n < MaxOf(AtAny("disconnect"))

Exhausted(v, e) ==
    /\ Cardinality(At("GET", v, e)) = RetryBudget
    /\ \A g \in At("GET", v, e) : ReturnedFailure(g)

Verdict ==
    IF pc # "done" THEN "running"
    ELSE IF raised.type = "none" THEN "passed"
    ELSE IF raised.type = "AssertionError" THEN "failed"
    ELSE "error"

FailedRequest(n) ==
    \/ trace[n].op \in {"GET", "POST"} /\ trace[n].status # 200
    \/ trace[n].op = "DELETE" /\ trace[n].status # 204

\* C6: a cloud request answered with a non-success status ends the run at
\* once with the HTTP error: it is the last interaction of the run, also
\* inside the polling loop, and no disconnect command follows.
C6_TransportErrorAborts ==
    \A n \in 1..Len(trace) :
        FailedRequest(n) =>
            /\ n = Len(trace)
            /\ pc = "done"
            /\ raised.type = "HTTPError"

C6_FailedInsidePollingLoop ==
    /\ trace # <<>>
    /\ FailedRequest(Len(trace))
    /\ trace[Len(trace)].op = "GET"
    /\ Cardinality(At("GET", trace[Len(trace)].vi, trace[Len(trace)].ei)) >= 2
    /\ pc = "done"

\* The configuration has been read and lacks a value for the key.
Missing(k) == config[k] \in {"absent", "empty"}

\* C7: when a required key is absent or empty in the loaded configuration,
\* the construction of CfgValues fails with MissingConfigError naming a
\* missing key, the first in reading order, and the run ends before the
\* device is launched, a command written or a request made.
C7_MissingKeyFailsBeforeDevice ==
    (\E k \in KeySet : Missing(k)) =>
        /\ pc = "done"
        /\ raised.type = "MissingConfigError"
        /\ raised.key \in KeySet
        /\ Missing(raised.key)
        /\ \A n \in 1..Len(ConfigKeys) :
              Missing(ConfigKeys[n]) =>
                \E m \in 1..n : ConfigKeys[m] = raised.key
        /\ trace = <<>>

C7_EmptyCertificatePath ==
    /\ config["CONFIG_TLS_CERTIFICATE_PATH"] = "empty"
    /\ \A k \in KeySet \ {"CONFIG_TLS_CERTIFICATE_PATH"} : config[k] = "set"
    /\ raised = [type |-> "MissingConfigError", key |-> "CONFIG_TLS_CERTIFICATE_PATH"]
    /\ pc = "done"

\* The number of units the payload of a fixture holds: the aggregate is one
\* unit, the other classes one for each property, mapping or path.
FixtureUnits(f) == IF f.kind = "Aggregate" THEN 1 ELSE Len(f.items)

\* C14: every variant of the list has its payload taken apart through
\* _get_single_send_elements, and a variant whose test returned had one
\* shell command written for each unit of its payload.
C14_OneCommandPerUnit ==
    \A v \in 1..Len(data) :
        /\ "_get_single_send_elements" \in DefinedMethods(data[v].kind)
        /\ (\E n \in 1..Len(trace) : trace[n].op = "return" /\ trace[n].vi = v) =>
                \A e \in 1..FixtureUnits(data[v]) : Cardinality(At("cmd", v, e)) = 1

\* The commands of a kind written for a path of an interface.
CommandsFor(kind, interface, path) ==
    {n \in AtAny("cmd") :
        /\ trace[n].cmd[2] = Word(kind)
        /\ trace[n].cmd[3] = Word(interface)
        /\ trace[n].cmd[4] = [t |-> "path", v |-> path]}

FieldMatches(f, body, item) ==
    LET parameter == Split(f.path)[2]
    IN  /\ HasKey(body, parameter)
        /\ HasKey(Get(body, parameter)[1], item.key)
        /\ compare_data(decode_value(Get(Get(body, parameter)[1], item.key), item.key),
                        item.value)

\* The response lacks the parameter or, under it, the expected field.
KeyMissing(f, body, item) ==
    LET parameter == Split(f.path)[2]
    IN  \/ ~HasKey(body, parameter)
        \/ ~HasKey(Get(body, parameter)[1], item.key)

\* C17: the check of an Aggregate answers true exactly when every expected
\* field is in the response under the parameter and decodes to a value equal
\* to the expected one; a response that lacks the parameter or a field makes
\* it answer false without raising, and the polling loop goes on to its next
\* attempt while it has one.
C17_AggregateCheck ==
    \A n \in AtAny("GET") :
        (n = MaxOf(AtAny("GET")) /\ trace[n].status = 200) =>
            LET f == data[trace[n].vi]
                entries == single_send_elements(f)[trace[n].ei]
                missing == \E k \in 1..Len(entries) :
                              /\ KeyMissing(f, received_data, entries[k])
                              /\ \A j \in 1..(k - 1) :
                                    FieldMatches(f, received_data, entries[j])
            IN  /\ trace[n].exc = "none" =>
                    (trace[n].ok <=>
                        \A k \in 1..Len(entries) :
                            FieldMatches(f, received_data, entries[k]))
                /\ missing =>
                    /\ trace[n].exc = "none"
                    /\ ~trace[n].ok
                    /\ n = Len(trace) =>
                        /\ raised = NoException
                        /\ pc = (IF i < RetryBudget THEN "polling" ELSE "element")

C17_RetriedAfterMissingField ==
    /\ trace # <<>>
    /\ Last(trace).op = "GET"
    /\ Last(trace).status = 200
    /\ ~Last(trace).ok
    /\ HasKey(received_data, Split(data[vi].path)[2])
    /\ \E k \in 1..Len(data[vi].items) : KeyMissing(data[vi], received_data, data[vi].items[k])
    /\ pc = "polling"

\* C18: the ownership of the variant being processed routes every
\* interaction: the cloud is written to (POST, DELETE) only for a SERVER-owned
\* variant and read (GET) only for a DEVICE-owned one, and the verb of a
\* shell command is expect for SERVER and send for DEVICE.
C18_OwnershipRoutes ==
    \A n \in 1..Len(trace) :
        /\ trace[n].op \in {"POST", "DELETE"} =>
                data[trace[n].vi].ownership = "SERVER"
        /\ trace[n].op = "GET" => data[trace[n].vi].ownership = "DEVICE"
        /\ trace[n].op = "cmd" =>
                trace[n].cmd[1] = Word(IF data[trace[n].vi].ownership = "SERVER"
                                       THEN "expect" ELSE "send")

C18_WroteAndReadTheCloud ==
    /\ \E n \in AtAny("POST") : trace[n].ok
    /\ \E n \in AtAny("GET") : trace[n].ok
    /\ \E n \in AtAny("cmd") : trace[n].cmd[1] = Word("expect")
    /\ \E n \in AtAny("cmd") : trace[n].cmd[1] = Word("send")

\* An interaction with the shell of the device or with the cloud.
Interactions == {"cmd", "POST", "GET", "DELETE", "disconnect"}

====
